---- MODULE Spec2Model ----
(***************************************************************************)
(* Model of the voicesnap-backend invocation core: the retrying upstream   *)
(* client callClaude, its error classifier, the earlier non-retrying       *)
(* client of services/claude.js, the response unwrapper parseJSON, the     *)
(* shape validators, sanitizeInput, and the HTTP layer around them (auth,  *)
(* input checks, route handlers, request timeout).                         *)
(***************************************************************************)
EXTENDS Integers, Sequences, FiniteSets, TLC

VARIABLES
    pc,            \* position of the callClaude invocation
    attempt,       \* loop variable `attempt`
    lastError,     \* local `lastError`
    calls,         \* number of client.messages.create calls issued
    sleeps,        \* number of sleep() calls made
    delays,        \* the delays passed to sleep(), in order
    failures,      \* log of the caught errors: status and classification
    elapsed,       \* milliseconds since the invocation started
    outcome,       \* what crossed the invocation boundary
    received,      \* the envelope the last resolved upstream call gave
    legacyPc,      \* position of the services/claude.js invocation
    legacyOutcome, \* what crossed that invocation's boundary
    unwrapPc,      \* position of the parseJSON round-trip run
    unwrapIn,      \* the JSON text, its wrapping and the wrapped text
    unwrapOut,     \* parse results of the bare and of the wrapped text
    checkPc,       \* position of the shape validation run
    checkIn,       \* the validator name and the parsed value
    checkOut,      \* what parseAndValidate's validation step produced
    sanPc,         \* position of the sanitizeInput run
    sanIn,         \* the text given to sanitizeInput
    sanOut,        \* the text sanitized once and sanitized twice
    reqPc,         \* position of the route handler of the HTTP request
    request,       \* the HTTP request: path, x-api-key header, body
    prompt,        \* the sanitized texts the handler put in the prompt
    sent,          \* the responses written for the request
    sendAttempts,  \* number of res.json calls made for the request
    timerFired,    \* whether the request timeout callback has run
    inv            \* the local variables of each of the concurrent invocations

invokeVars ==
    <<pc, attempt, lastError, calls, sleeps, delays, failures, elapsed, outcome, received>>
legacyVars == <<legacyPc, legacyOutcome>>
unwrapVars == <<unwrapPc, unwrapIn, unwrapOut>>
checkVars == <<checkPc, checkIn, checkOut>>
sanVars == <<sanPc, sanIn, sanOut>>
httpVars == <<reqPc, request, prompt, sent, sendAttempts, timerFired>>
concVars == <<inv>>
otherVars == <<unwrapVars, checkVars, sanVars, httpVars, concVars>>
vars == <<invokeVars, legacyVars, otherVars>>

----------------------------------------------------------------------------
(* JavaScript values, tagged by typeof.                                     *)

Undefined == [t |-> "undefined"]
Str(s) == [t |-> "string", v |-> s]
Num(n) == [t |-> "number", v |-> n]
Arr(a) == [t |-> "array", v |-> a]

\* property read: a missing property reads as undefined
Get(obj, field) == IF field \in DOMAIN obj THEN obj[field] ELSE Undefined

\* a value interpolated in a template literal
templateString(x) == IF x.t = "string" THEN x.v ELSE "undefined"

\* String.prototype.includes
Includes(s, sub) ==
    \E i \in 1..(Len(s) - Len(sub) + 1) : SubSeq(s, i, i + Len(sub) - 1) = sub

----------------------------------------------------------------------------
(* Configuration.                                                           *)

TRANSPORT_TIMEOUT_MS == 60000
MAX_RETRIES == 3
INITIAL_RETRY_DELAY_MS == 1000
REQUEST_TIMEOUT_MS == 90000

\* largest number of content units in a modelled envelope
MaxUnits == 2

\* Math.random() * 500, in whole milliseconds: a value in [0, 500)
JitterValues == {0, 499}

\* durations of an upstream call that ends before the transport timeout
AttemptDurations == {200}

----------------------------------------------------------------------------
(* Errors.                                                                  *)

ClaudeAPIError(message, code, isRetryable) ==
    [name |-> "ClaudeAPIError", message |-> Str(message), code |-> Str(code),
     isRetryable |-> isRetryable]

instanceofClaudeAPIError(error) == error.name = "ClaudeAPIError"

\* a failure of client.messages.create: optional status, optional transport
\* code, a message
RawFailure(status, code, message) ==
    [name |-> "Error", status |-> status, code |-> code, message |-> message]

Statuses == {Undefined, Num(401), Num(429), Num(503)}
Codes == {Undefined, Str("ETIMEDOUT"), Str("ECONNRESET")}
Messages == {Str("timeout"), Str("connect ETIMEDOUT"), Str("bad")}

RawFailures == {RawFailure(s, c, m) : s \in Statuses, c \in Codes, m \in Messages}

\* what the transport can reject with when its own timer fires: no upstream
\* status was received
TimeoutFailures == {e \in RawFailures : e.status = Undefined}

isRetryableError(error) ==
    LET status == Get(error, "status")
        code == Get(error, "code")
        message == Get(error, "message")
    IN  IF status = Num(429) THEN TRUE
        ELSE IF status.t = "number" /\ status.v >= 500 THEN TRUE
        ELSE IF code = Str("ETIMEDOUT") \/ code = Str("ECONNRESET") THEN TRUE
        ELSE IF message # Undefined /\ Includes(message.v, "timeout") THEN TRUE
        ELSE FALSE

----------------------------------------------------------------------------
(* Upstream envelopes.                                                      *)

UnitTexts == {Undefined, Str(""), Str("hi")}
Units == {[type |-> k, text |-> x] : k \in {"text", "tool_use"}, x \in UnitTexts}

RECURSIVE SeqsUpTo(_, _)
SeqsUpTo(S, n) ==
    IF n = 0 THEN {<<>>}
    ELSE LET shorter == SeqsUpTo(S, n - 1)
         IN  shorter \cup {Append(s, x) : s \in {q \in shorter : Len(q) = n - 1}, x \in S}

Contents == {Undefined, Str("oops")} \cup {Arr(a) : a \in SeqsUpTo(Units, MaxUnits)}
Envelopes == {[content |-> c] : c \in Contents}

\* slip: the last text unit is taken
RECURSIVE findTextLast(_)
findTextLast(a) ==
    IF a = <<>> THEN Undefined
    ELSE IF a[Len(a)].type = "text" THEN a[Len(a)]
    ELSE findTextLast(SubSeq(a, 1, Len(a) - 1))

\* Array.prototype.find(c => c.type === 'text'): first match or undefined
RECURSIVE findText(_)
findText(a) ==
    IF a = <<>> THEN Undefined
    ELSE IF Head(a).type = "text" THEN Head(a)
    ELSE findText(Tail(a))

\* !response.content
Falsy(x) == x = Undefined \/ x = Str("") \/ x = Num(0)

\* the body of the try block after the await: the returned text, or the
\* ClaudeAPIError it throws
validateResponse(response) ==
    LET content == response.content IN
    IF Falsy(content) \/ content.t # "array" \/ Len(content.v) = 0
    THEN [threw |-> TRUE,
          error |-> ClaudeAPIError("Invalid response structure from Claude",
                                   "INVALID_RESPONSE", FALSE)]
    ELSE LET textContent == findText(content.v) IN
         IF textContent = Undefined \/ textContent.text.t # "string"
         THEN [threw |-> TRUE,
               error |-> ClaudeAPIError("No text content in Claude response",
                                        "NO_TEXT_CONTENT", FALSE)]
         ELSE [threw |-> FALSE, value |-> textContent.text]

----------------------------------------------------------------------------
(* callClaude, the retrying client.                                         *)

Pow2(n) == IF n = 0 THEN 1 ELSE IF n = 1 THEN 2 ELSE IF n = 2 THEN 4 ELSE 8

\* slip: the exponent is attempt instead of attempt - 1
backoffDelayDoubled(n, jitter) == INITIAL_RETRY_DELAY_MS * Pow2(n) + jitter

\* INITIAL_RETRY_DELAY_MS * Math.pow(2, attempt - 1) + Math.random() * 500
backoffDelay(n, jitter) == INITIAL_RETRY_DELAY_MS * Pow2(n - 1) + jitter

\* "Categorize the final error"
categorize(error) ==
    LET status == Get(error, "status")
        message == Get(error, "message")
    IN  IF status = Num(429)
        THEN ClaudeAPIError("Rate limit exceeded. Please try again later.",
                            "RATE_LIMITED", TRUE)
        ELSE IF status = Num(401)
        THEN ClaudeAPIError("API authentication failed", "AUTH_FAILED", FALSE)
        ELSE IF status.t = "number" /\ status.v >= 500
        THEN ClaudeAPIError("Claude service temporarily unavailable",
                            "SERVICE_UNAVAILABLE", TRUE)
        ELSE IF message # Undefined /\ Includes(message.v, "timeout")
        THEN ClaudeAPIError("Request timed out. Please try again.", "TIMEOUT", TRUE)
        ELSE ClaudeAPIError("Claude API error: " \o templateString(message), "UNKNOWN_ERROR", FALSE)

\* slip: a thrown ClaudeAPIError is never recognised
isFatalNever(error) == FALSE

\* "Don't retry non-retryable errors"
isFatal(error) == instanceofClaudeAPIError(error) /\ ~error.isRetryable

\* slip: the loop gives up one attempt early
isLastAttemptEarly(n) == n = MAX_RETRIES - 1

\* "Don't retry on last attempt"
isLastAttempt(n) == n = MAX_RETRIES

\* what the log keeps of a caught error
logEntry(error) ==
    [status |-> Get(error, "status"), retryable |-> isRetryableError(error)]

Throw(error) ==
    /\ pc' = "thrown"
    /\ outcome' = [kind |-> "throw", error |-> error]

\* slip: the isRetryableError check is missing
catchDecisionRetriesAll(error, n) ==
    IF isFatal(error) THEN "rethrow"
    ELSE IF isLastAttempt(n) THEN "break"
    ELSE "sleep"

\* the branch the catch block takes for `error` caught on attempt n
catchDecision(error, n) ==
    IF isFatal(error) THEN "rethrow"
    ELSE IF ~isRetryableError(error) THEN "break"
    ELSE IF isLastAttempt(n) THEN "break"
    ELSE "sleep"

\* the catch block, and what follows the loop when it breaks
catchBlock(error, jitter) ==
    /\ lastError' = error
    /\ failures' = Append(failures, logEntry(error))
    /\ IF catchDecision(error, attempt) = "rethrow"
       THEN Throw(error) /\ UNCHANGED <<sleeps, delays>>
       ELSE IF catchDecision(error, attempt) = "break"
       THEN Throw(categorize(error)) /\ UNCHANGED <<sleeps, delays>>
       ELSE /\ pc' = "sleeping"
            /\ sleeps' = sleeps + 1
            /\ delays' = Append(delays, backoffDelay(attempt, jitter))
            /\ UNCHANGED outcome

\* the loop is entered and the first request issued
enterLoop ==
    /\ pc = "idle"
    /\ legacyPc = "idle"
    /\ pc' = "calling"
    /\ attempt' = 1
    /\ calls' = calls + 1
    /\ UNCHANGED <<lastError, sleeps, delays, failures, elapsed, outcome, received>>

\* the call is made
callClaude ==
    /\ enterLoop
    /\ UNCHANGED <<legacyVars, otherVars>>

\* client.messages.create resolves with an envelope
UpstreamResolves(response, duration, jitter) ==
    /\ pc = "calling"
    /\ elapsed' = elapsed + duration
    /\ received' = response
    /\ LET r == validateResponse(response) IN
       IF r.threw
       THEN catchBlock(r.error, jitter)
       ELSE /\ pc' = "returned"
            /\ outcome' = [kind |-> "return", value |-> r.value]
            /\ UNCHANGED <<lastError, sleeps, delays, failures>>
    /\ UNCHANGED <<attempt, calls>>
    /\ UNCHANGED <<legacyVars, otherVars>>

\* client.messages.create rejects before the transport timeout
UpstreamRejects(error, duration, jitter) ==
    /\ pc = "calling"
    /\ elapsed' = elapsed + duration
    /\ catchBlock(error, jitter)
    /\ UNCHANGED <<attempt, calls, received>>
    /\ UNCHANGED <<legacyVars, otherVars>>

\* the client's 60 second timeout ends the request
UpstreamTimesOut(error, jitter) ==
    /\ pc = "calling"
    /\ elapsed' = elapsed + TRANSPORT_TIMEOUT_MS
    /\ catchBlock(error, jitter)
    /\ UNCHANGED <<attempt, calls, received>>
    /\ UNCHANGED <<legacyVars, otherVars>>

\* sleep(delay) resolves: attempt++ and the next request is issued
SleepEnds ==
    /\ pc = "sleeping"
    /\ elapsed' = elapsed + delays[Len(delays)]
    /\ attempt' = attempt + 1
    /\ calls' = calls + 1
    /\ pc' = "calling"
    /\ UNCHANGED <<lastError, sleeps, delays, failures, outcome, received>>
    /\ UNCHANGED <<legacyVars, otherVars>>

----------------------------------------------------------------------------
(* callClaude of services/claude.js, the client without retries.            *)

\* a read of property `prop` of undefined
TypeError(prop) ==
    [name |-> "TypeError",
     message |-> Str("Cannot read properties of undefined (reading '" \o prop \o "')")]

\* response.content[0].text
readFirstText(response) ==
    LET content == response.content IN
    IF content = Undefined THEN [threw |-> TRUE, error |-> TypeError("0")]
    ELSE IF content.t = "string"
    THEN \* a character of a string has no `text` property
         [threw |-> FALSE, value |-> Undefined]
    ELSE IF Len(content.v) = 0 THEN [threw |-> TRUE, error |-> TypeError("text")]
    ELSE [threw |-> FALSE, value |-> content.v[1].text]

\* throw new Error(`Claude API error: ${error.message}`)
wrapError(error) ==
    [name |-> "Error", message |-> Str("Claude API error: " \o templateString(error.message))]

callClaudeSimple ==
    /\ legacyPc = "idle"
    /\ pc = "idle"
    /\ legacyPc' = "calling"
    /\ UNCHANGED <<legacyOutcome, invokeVars, otherVars>>

SimpleResolves(response) ==
    /\ legacyPc = "calling"
    /\ LET r == readFirstText(response) IN
       IF r.threw
       THEN /\ legacyPc' = "thrown"
            /\ legacyOutcome' = [kind |-> "throw", error |-> wrapError(r.error)]
       ELSE /\ legacyPc' = "returned"
            /\ legacyOutcome' = [kind |-> "return", value |-> r.value]
    /\ UNCHANGED <<invokeVars, otherVars>>

SimpleRejects(error) ==
    /\ legacyPc = "calling"
    /\ legacyPc' = "thrown"
    /\ legacyOutcome' = [kind |-> "throw", error |-> wrapError(error)]
    /\ UNCHANGED <<invokeVars, otherVars>>

----------------------------------------------------------------------------
(* Specification of the two clients.                                        *)

NoOutcome == [kind |-> "none"]

UnwrapIdle ==
    /\ unwrapPc = "idle"
    /\ unwrapIn = Undefined
    /\ unwrapOut = Undefined

CheckIdle ==
    /\ checkPc = "idle"
    /\ checkIn = Undefined
    /\ checkOut = Undefined

SanIdle ==
    /\ sanPc = "idle"
    /\ sanIn = Undefined
    /\ sanOut = Undefined

\* no HTTP request has arrived
HttpIdle ==
    /\ reqPc = "none"
    /\ request = Undefined
    /\ prompt = Undefined
    /\ sent = <<>>
    /\ sendAttempts = 0
    /\ timerFired = FALSE

MaxInvocations == 2

Invocations == 1..MaxInvocations

\* the local variables of a callClaude call that has not begun, its number of
\* upstream calls in flight and the log of what it awaited
NotStarted ==
    [pc |-> "idle", attempt |-> 0, lastError |-> Undefined, calls |-> 0, sleeps |-> 0,
     inFlight |-> 0, log |-> <<>>, outcome |-> NoOutcome]

ConcIdle == inv = [i \in Invocations |-> NotStarted]

\* no callClaude invocation has been made
ClientsIdle ==
    /\ pc = "idle"
    /\ attempt = 0
    /\ lastError = Undefined
    /\ calls = 0
    /\ sleeps = 0
    /\ delays = <<>>
    /\ failures = <<>>
    /\ elapsed = 0
    /\ outcome = NoOutcome
    /\ received = Undefined
    /\ legacyPc = "idle"
    /\ legacyOutcome = NoOutcome

Init ==
    /\ ClientsIdle
    /\ UnwrapIdle
    /\ CheckIdle
    /\ SanIdle
    /\ HttpIdle /\ ConcIdle

Next ==
    \/ callClaude
    \/ \E response \in Envelopes, duration \in AttemptDurations, jitter \in JitterValues :
          UpstreamResolves(response, duration, jitter)
    \/ \E error \in RawFailures, duration \in AttemptDurations, jitter \in JitterValues :
          UpstreamRejects(error, duration, jitter)
    \/ \E error \in TimeoutFailures, jitter \in JitterValues :
          UpstreamTimesOut(error, jitter)
    \/ SleepEnds
    \/ callClaudeSimple
    \/ \E response \in Envelopes : SimpleResolves(response)
    \/ \E error \in RawFailures : SimpleRejects(error)

Spec == Init /\ [][Next]_vars

----------------------------------------------------------------------------
(* Strings.                                                                 *)

\* String.prototype.charAt, 1-based: "" outside the string
charAt(s, i) == IF i >= 1 /\ i <= Len(s) THEN SubSeq(s, i, i) ELSE ""

startsWith(s, prefix) == Len(s) >= Len(prefix) /\ SubSeq(s, 1, Len(prefix)) = prefix

endsWith(s, suffix) ==
    Len(s) >= Len(suffix) /\ SubSeq(s, Len(s) - Len(suffix) + 1, Len(s)) = suffix

\* s.slice(n) for n >= 0
sliceFrom(s, n) == IF n >= Len(s) THEN "" ELSE SubSeq(s, n + 1, Len(s))

\* s.slice(0, -n) for n > 0
sliceDropLast(s, n) == IF n >= Len(s) THEN "" ELSE SubSeq(s, 1, Len(s) - n)

\* the white space String.prototype.trim removes (of the characters modelled)
TrimWhitespace == {" ", "\t", "\n", "\r", "\f"}

RECURSIVE trimStart(_)
trimStart(s) ==
    IF Len(s) > 0 /\ charAt(s, 1) \in TrimWhitespace THEN trimStart(sliceFrom(s, 1)) ELSE s

RECURSIVE trimEnd(_)
trimEnd(s) ==
    IF Len(s) > 0 /\ charAt(s, Len(s)) \in TrimWhitespace
    THEN trimEnd(sliceDropLast(s, 1)) ELSE s

trim(s) == trimEnd(trimStart(s))

----------------------------------------------------------------------------
(* JSON.parse, for texts without string escapes, fractions or exponents.    *)

JNull == [t |-> "null"]
JBool(b) == [t |-> "boolean", v |-> b]
Obj(members) == [t |-> "object", v |-> members]

JSONWhitespace == {" ", "\t", "\n", "\r"}
DigitChars == <<"0", "1", "2", "3", "4", "5", "6", "7", "8", "9">>
IsDigit(c) == \E k \in 1..10 : DigitChars[k] = c
DigitValue(c) == (CHOOSE k \in 1..10 : DigitChars[k] = c) - 1

ParseFail == [ok |-> FALSE]
ParseOk(val, next) == [ok |-> TRUE, val |-> val, next |-> next]

RECURSIVE skipWs(_, _)
skipWs(s, i) == IF charAt(s, i) \in JSONWhitespace THEN skipWs(s, i + 1) ELSE i

\* index after the last digit of the run of digits starting at i
RECURSIVE scanDigits(_, _)
scanDigits(s, i) == IF IsDigit(charAt(s, i)) THEN scanDigits(s, i + 1) ELSE i

RECURSIVE digitsValue(_)
digitsValue(d) ==
    IF Len(d) = 0 THEN 0
    ELSE 10 * digitsValue(sliceDropLast(d, 1)) + DigitValue(charAt(d, Len(d)))

\* index of the quote closing the string whose content starts at i, 0 if none
RECURSIVE scanString(_, _)
scanString(s, i) ==
    LET c == charAt(s, i) IN
    IF c = "" \/ c \in {"\n", "\r", "\t", "\\"} THEN 0
    ELSE IF c = "\"" THEN i
    ELSE scanString(s, i + 1)

parseNumber(s, i) ==
    LET neg == charAt(s, i) = "-"
        first == IF neg THEN i + 1 ELSE i
        last == scanDigits(s, first)
        digits == IF last > first THEN SubSeq(s, first, last - 1) ELSE ""
    IN  IF last = first THEN ParseFail
        ELSE IF Len(digits) > 1 /\ charAt(digits, 1) = "0" THEN ParseFail
        ELSE ParseOk(Num(IF neg THEN 0 - digitsValue(digits) ELSE digitsValue(digits)), last)

parseString(s, i) ==
    LET close == scanString(s, i + 1) IN
    IF close = 0 THEN ParseFail
    ELSE ParseOk(Str(IF close > i + 1 THEN SubSeq(s, i + 1, close - 1) ELSE ""), close + 1)

parseLiteral(s, i, word, val) ==
    IF startsWith(sliceFrom(s, i - 1), word) THEN ParseOk(val, i + Len(word)) ELSE ParseFail

\* a later member with the same key replaces the value of the earlier one
putMember(members, key, val) ==
    IF \E k \in 1..Len(members) : members[k].key = key
    THEN [k \in 1..Len(members) |->
             IF members[k].key = key THEN [key |-> key, val |-> val] ELSE members[k]]
    ELSE Append(members, [key |-> key, val |-> val])

RECURSIVE parseValue(_, _), parseElements(_, _, _), parseMembers(_, _, _)
parseValue(s, i0) ==
    LET i == skipWs(s, i0)
        c == charAt(s, i)
    IN  IF c = "n" THEN parseLiteral(s, i, "null", JNull)
        ELSE IF c = "t" THEN parseLiteral(s, i, "true", JBool(TRUE))
        ELSE IF c = "f" THEN parseLiteral(s, i, "false", JBool(FALSE))
        ELSE IF c = "\"" THEN parseString(s, i)
        ELSE IF c = "-" \/ IsDigit(c) THEN parseNumber(s, i)
        ELSE IF c = "["
        THEN LET j == skipWs(s, i + 1) IN
             IF charAt(s, j) = "]" THEN ParseOk(Arr(<<>>), j + 1)
             ELSE parseElements(s, j, <<>>)
        ELSE IF c = "{"
        THEN LET j == skipWs(s, i + 1) IN
             IF charAt(s, j) = "}" THEN ParseOk(Obj(<<>>), j + 1)
             ELSE parseMembers(s, j, <<>>)
        ELSE ParseFail

parseElements(s, i, acc) ==
    LET r == parseValue(s, i) IN
    IF ~r.ok THEN ParseFail
    ELSE LET j == skipWs(s, r.next)
             c == charAt(s, j)
         IN  IF c = "," THEN parseElements(s, j + 1, Append(acc, r.val))
             ELSE IF c = "]" THEN ParseOk(Arr(Append(acc, r.val)), j + 1)
             ELSE ParseFail

parseMembers(s, i, acc) ==
    LET j == skipWs(s, i) IN
    IF charAt(s, j) # "\"" THEN ParseFail
    ELSE LET k == parseString(s, j) IN
         IF ~k.ok THEN ParseFail
         ELSE LET colon == skipWs(s, k.next) IN
              IF charAt(s, colon) # ":" THEN ParseFail
              ELSE LET r == parseValue(s, colon + 1) IN
                   IF ~r.ok THEN ParseFail
                   ELSE LET e == skipWs(s, r.next)
                            c == charAt(s, e)
                            members == putMember(acc, k.val.v, r.val)
                        IN  IF c = "," THEN parseMembers(s, e + 1, members)
                            ELSE IF c = "}" THEN ParseOk(Obj(members), e + 1)
                            ELSE ParseFail

SyntaxError == [name |-> "SyntaxError"]

JSONparse(text) ==
    LET r == parseValue(text, 1) IN
    IF r.ok /\ skipWs(text, r.next) = Len(text) + 1
    THEN [threw |-> FALSE, value |-> r.val]
    ELSE [threw |-> TRUE, error |-> SyntaxError]

----------------------------------------------------------------------------
(* parseJSON, the response unwrapper.                                       *)

\* The grave accent cannot be written inside a TLA+ string: "#" stands for
\* it in every modelled text, so Fence is the three-character fence marker.
Backquote == "#"
Fence == Backquote \o Backquote \o Backquote

stripOpening(cleaned) ==
    IF startsWith(cleaned, Fence \o "json") THEN sliceFrom(cleaned, 7)
    ELSE IF startsWith(cleaned, Fence) THEN sliceFrom(cleaned, 3)
    ELSE cleaned

stripClosing(cleaned) ==
    IF endsWith(cleaned, Fence) THEN sliceDropLast(cleaned, 3) ELSE cleaned

parseJSON(response) == JSONparse(trim(stripClosing(stripOpening(trim(response)))))

----------------------------------------------------------------------------
(* Round trip through a fenced block.                                       *)

JSONTexts ==
    {"1", "null", "true", "[]", "[1,2]", "\"x\"", "{\"a\":1}",
     "[{\"front\":\"X\",\"back\":\"Y\"}]", "[ 10, \"a b\" ]"}

\* language tags of the opening marker; "" is the untagged marker
FenceTags == {"", "json", "JSON", "js", "javascript"}

Surroundings == {"", " ", "\n"}

\* opening marker, tag, line break, the text, line break, closing marker
wrapInFence(text, tag, lead, trail) ==
    lead \o Fence \o tag \o "\n" \o text \o "\n" \o Fence \o trail

UnwrapInputs ==
    {[text |-> x, tag |-> g, lead |-> l, trail |-> r] :
        x \in JSONTexts, g \in FenceTags, l \in Surroundings, r \in Surroundings}

InitUnwrap ==
    /\ ClientsIdle
    /\ CheckIdle
    /\ SanIdle
    /\ HttpIdle /\ ConcIdle
    /\ unwrapPc = "ready"
    /\ unwrapIn \in UnwrapInputs
    /\ unwrapOut = Undefined

\* parseJSON applied to the text and to the text wrapped in a fenced block
Unwrap ==
    /\ unwrapPc = "ready"
    /\ unwrapPc' = "done"
    /\ unwrapOut' =
          [bare |-> parseJSON(unwrapIn.text),
           wrapped |-> parseJSON(wrapInFence(unwrapIn.text, unwrapIn.tag,
                                             unwrapIn.lead, unwrapIn.trail))]
    /\ UNCHANGED <<unwrapIn, invokeVars, legacyVars, checkVars, sanVars, httpVars, concVars>>

NextUnwrap == Unwrap

SpecUnwrap == InitUnwrap /\ [][NextUnwrap]_vars

----------------------------------------------------------------------------
(* Properties of callClaude.                                                *)

Ended == pc \in {"returned", "thrown"}
ThrownCode == outcome.error.code.v
LastIsRawFailure == lastError # Undefined /\ lastError.name = "Error"
AllRetryable == \A k \in 1..Len(failures) : failures[k].retryable
TerminalCodes ==
    {"RATE_LIMITED", "AUTH_FAILED", "SERVICE_UNAVAILABLE", "TIMEOUT", "UNKNOWN_ERROR"}

\* C1: when every attempt of an invocation fails with a failure classified
\* retryable, the invocation issues exactly MAX_RETRIES (3) upstream calls,
\* sleeps exactly twice (never after the last attempt) and ends by throwing
\* the terminal classified error; three 503 responses end in
\* SERVICE_UNAVAILABLE with retryable = true.
C1_RetryableFailuresExhaustRetries ==
    /\ calls <= MAX_RETRIES
    /\ sleeps <= MAX_RETRIES - 1
    /\ (pc = "thrown" /\ AllRetryable) =>
          /\ calls = 3
          /\ sleeps = 2
          /\ Len(failures) = 3
          /\ outcome.kind = "throw"
          /\ outcome.error.name = "ClaudeAPIError"
          /\ ThrownCode \in TerminalCodes
          /\ (\A k \in 1..3 : failures[k].status = Num(503)) =>
                (ThrownCode = "SERVICE_UNAVAILABLE" /\ outcome.error.isRetryable)

C1_Witness ==
    /\ pc = "thrown"
    /\ Len(failures) = 3
    /\ \A k \in 1..3 : failures[k].status = Num(503) /\ failures[k].retryable
    /\ calls = 3
    /\ sleeps = 2
    /\ ThrownCode = "SERVICE_UNAVAILABLE"

\* C2 as stated: whenever an upstream attempt fails with a failure classified
\* not retryable, the whole invocation has issued exactly 1 upstream call and
\* has not slept.
C2_Original ==
    (LastIsRawFailure /\ ~isRetryableError(lastError)) =>
        (pc = "thrown" /\ calls = 1 /\ sleeps = 0)

\* C2: when attempt k fails with a failure classified not retryable,
\* callClaude stops at once: it throws without a further upstream call or
\* sleep, having issued k calls and slept k - 1 times, so exactly 1 call and
\* no sleep when k = 1; such a failure with status 401 ends in AUTH_FAILED
\* with retryable = false.
C2_NonRetryableStopsAtOnce ==
    (LastIsRawFailure /\ ~isRetryableError(lastError)) =>
        /\ pc = "thrown"
        /\ calls = Len(failures)
        /\ sleeps = calls - 1
        /\ (Len(failures) = 1 => (calls = 1 /\ sleeps = 0))
        /\ lastError.status = Num(401) =>
              (ThrownCode = "AUTH_FAILED" /\ ~outcome.error.isRetryable)

C2_Witness ==
    /\ pc = "thrown"
    /\ Len(failures) = 1
    /\ LastIsRawFailure
    /\ lastError.status = Num(401)
    /\ ~failures[1].retryable
    /\ calls = 1
    /\ sleeps = 0
    /\ ThrownCode = "AUTH_FAILED"

\* the classification table of C3 applied to a raw failure
C3_Table(error) ==
    IF error.status = Num(429) THEN <<"RATE_LIMITED", TRUE>>
    ELSE IF error.status = Num(401) THEN <<"AUTH_FAILED", FALSE>>
    ELSE IF error.status # Undefined /\ error.status.v >= 500
    THEN <<"SERVICE_UNAVAILABLE", TRUE>>
    ELSE IF \/ Includes(error.message.v, "timeout")
            \/ error.code \in {Str("ETIMEDOUT"), Str("ECONNRESET")}
    THEN <<"TIMEOUT", TRUE>>
    ELSE <<"UNKNOWN_ERROR", FALSE>>

\* C3: the error thrown for a transport/upstream failure is the one the table
\* assigns to the last raw failure: 429 -> RATE_LIMITED (retryable), 401 ->
\* AUTH_FAILED (not), >= 500 -> SERVICE_UNAVAILABLE (retryable), a timeout
\* signalled by a message containing "timeout" or by a transport code
\* ETIMEDOUT/ECONNRESET -> TIMEOUT (retryable), otherwise UNKNOWN_ERROR (not).
C3_TerminalClassification ==
    (pc = "thrown" /\ LastIsRawFailure) =>
        <<ThrownCode, outcome.error.isRetryable>> = C3_Table(lastError)

\* C4: a value is returned only if it is a non-empty string; no empty or
\* non-string result is ever returned by either callClaude.
C4_ReturnsOnlyNonEmptyText ==
    /\ pc = "returned" => (outcome.value.t = "string" /\ outcome.value.v # "")
    /\ legacyPc = "returned" =>
          (legacyOutcome.value.t = "string" /\ legacyOutcome.value.v # "")

\* C5: a malformed success envelope is never retried: on whatever attempt
\* validation fails, the invocation throws at once, with no further upstream
\* call and no sleep, and the error thrown is the INVALID_RESPONSE /
\* NO_TEXT_CONTENT error itself, not an UNKNOWN_ERROR.
C5_MalformedEnvelopeNotRetried ==
    (lastError # Undefined /\ lastError.name = "ClaudeAPIError") =>
        /\ pc = "thrown"
        /\ outcome = [kind |-> "throw", error |-> lastError]
        /\ ThrownCode \in {"INVALID_RESPONSE", "NO_TEXT_CONTENT"}
        /\ ~outcome.error.isRetryable
        /\ calls = Len(failures)
        /\ sleeps = calls - 1

C5_Witness ==
    /\ pc = "thrown"
    /\ calls = 2
    /\ sleeps = 1
    /\ lastError.name = "ClaudeAPIError"
    /\ ThrownCode = "NO_TEXT_CONTENT"

\* C6: a failure with upstream status 401 never consumes a retry, whatever its
\* message and transport code: when the first attempt fails with status 401
\* the invocation throws AUTH_FAILED after exactly one upstream call.
C6_AuthFailureNeverRetried ==
    (Len(failures) >= 1 /\ failures[1].status = Num(401)) =>
        /\ ~failures[1].retryable
        /\ pc = "thrown"
        /\ calls = 1
        /\ ThrownCode = "AUTH_FAILED"

RECURSIVE Sum(_)
Sum(q) == IF q = <<>> THEN 0 ELSE Head(q) + Sum(Tail(q))

\* C7: the delay slept after failed attempt n lies in
\* [1000 * 2^(n-1), 1000 * 2^(n-1) + 500]: in [1000, 1500] after attempt 1 and
\* in [2000, 2500] after attempt 2; the total slept by one invocation never
\* exceeds 8500 ms.
C7_BackoffDelayBounds ==
    /\ Len(delays) = sleeps
    /\ Len(delays) >= 1 => (delays[1] >= 1000 /\ delays[1] <= 1500)
    /\ Len(delays) >= 2 => (delays[2] >= 2000 /\ delays[2] <= 2500)
    /\ Len(delays) <= 2
    /\ Sum(delays) <= 8500

C7_Witness ==
    /\ Len(delays) = 2
    /\ delays[1] = 1499
    /\ delays[2] = 2499
    /\ pc = "thrown"

\* C8: the transport timeout is shorter than the request timeout, and every
\* invocation that ends in TIMEOUT has taken less than the request timeout.
C8_TimeoutReportedBeforeRequestTimeout ==
    /\ TRANSPORT_TIMEOUT_MS < REQUEST_TIMEOUT_MS
    /\ (pc = "thrown" /\ ThrownCode = "TIMEOUT") => elapsed < REQUEST_TIMEOUT_MS

IsClassifiedError(e) ==
    /\ e.name = "ClaudeAPIError"
    /\ DOMAIN e = {"name", "message", "code", "isRetryable"}
    /\ e.isRetryable \in BOOLEAN

IsUniformOutcome(o) ==
    \/ o.kind = "return" /\ o.value.t = "string"
    \/ o.kind = "throw" /\ IsClassifiedError(o.error)

\* C9: an invocation that has ended has exactly one outcome, a returned text
\* or a thrown ClaudeAPIError with a code and a retryability flag; no other
\* error type crosses the boundary of either callClaude.
C9_UniformOutcome ==
    /\ Ended => IsUniformOutcome(outcome)
    /\ legacyPc \in {"returned", "thrown"} => IsUniformOutcome(legacyOutcome)

\* C10: for every valid JSON text, parseJSON of the text wrapped in a fenced
\* block (untagged or with any language tag, with any surrounding white space)
\* yields the value parseJSON yields for the text itself.
C10_FenceRoundTrip ==
    unwrapPc = "done" =>
        /\ ~unwrapOut.bare.threw
        /\ unwrapOut.wrapped = unwrapOut.bare

----------------------------------------------------------------------------
(* Parsed JSON values as the validators see them.                           *)

\* the number n + 1/2
Half(n) == [t |-> "number", v |-> n, half |-> TRUE]

Member(key, val) == [key |-> key, val |-> val]

typeofJS(x) == IF x.t \in {"null", "array", "object"} THEN "object" ELSE x.t

isArray(x) == x.t = "array"

\* x[key] for a named property; arrays and primitives have none of the names
\* read here
getProp(x, key) ==
    IF x.t = "object" /\ \E k \in 1..Len(x.v) : x.v[k].key = key
    THEN x.v[CHOOSE k \in 1..Len(x.v) : x.v[k].key = key].val
    ELSE Undefined

\* reading a property of null or undefined throws a TypeError
readThrows(x) == x \in {JNull, Undefined}

\* x < k and x >= k for a number x and an integer k
numLess(x, k) == x.v < k
numAtLeast(x, k) == x.v >= k

\* typeof x !== 'string' || x.trim() === ''
notValidString(x) == x.t # "string" \/ trim(x.v) = ""

\* `${i}` for a small index
indexString(i) == DigitChars[i + 1]

----------------------------------------------------------------------------
(* The shape validators.                                                    *)

Valid == [threw |-> FALSE, valid |-> TRUE]
Invalid(message) == [threw |-> FALSE, valid |-> FALSE, error |-> message]
Threw == [threw |-> TRUE]

\* one `if (...) return { valid: false, error }` statement: whether
\* evaluating its condition throws, whether the condition holds, the message
Check(throws, fails, message) == [throws |-> throws, fails |-> fails, error |-> message]

notObject(x) == typeofJS(x) # "object" \/ x = JNull

\* the statements of one loop body, run in order up to the first return
RECURSIVE firstFailure(_)
firstFailure(checks) ==
    IF checks = <<>> THEN Valid
    ELSE LET c == Head(checks) IN
         IF c.throws THEN Threw
         ELSE IF c.fails THEN Invalid(c.error)
         ELSE firstFailure(Tail(checks))

flashcardChecks(card, i) ==
    << Check(FALSE, notObject(card),
             "Flashcard " \o indexString(i) \o " is not an object"),
       Check(readThrows(card), notValidString(getProp(card, "front")),
             "Flashcard " \o indexString(i) \o " missing valid 'front' field"),
       Check(readThrows(card), notValidString(getProp(card, "back")),
             "Flashcard " \o indexString(i) \o " missing valid 'back' field") >>

quizChecks(q, i) ==
    LET options == getProp(q, "options")
        correctIndex == getProp(q, "correctIndex")
    IN  << Check(FALSE, notObject(q),
                 "Question " \o indexString(i) \o " is not an object"),
           Check(readThrows(q), notValidString(getProp(q, "question")),
                 "Question " \o indexString(i) \o " missing valid 'question' field"),
           Check(readThrows(q), ~isArray(options) \/ Len(options.v) < 2,
                 "Question " \o indexString(i) \o " missing valid 'options' array"),
           Check(readThrows(q) \/ (correctIndex.t = "number" /\ readThrows(options)),
                 \/ correctIndex.t # "number"
                 \/ numLess(correctIndex, 0)
                 \/ (isArray(options) /\ numAtLeast(correctIndex, Len(options.v))),
                 "Question " \o indexString(i) \o " has invalid 'correctIndex'") >>

actionItemChecks(item, i) ==
    << Check(FALSE, notObject(item),
             "Action item " \o indexString(i) \o " is not an object"),
       Check(readThrows(item), notValidString(getProp(item, "task")),
             "Action item " \o indexString(i) \o " missing valid 'task' field") >>

highlightChecks(item, i) ==
    << Check(FALSE, notValidString(item),
             "Highlight " \o indexString(i) \o " is not a valid string") >>

faqChecks(faq, i) ==
    << Check(FALSE, notObject(faq),
             "FAQ " \o indexString(i) \o " is not an object"),
       Check(readThrows(faq), notValidString(getProp(faq, "question")),
             "FAQ " \o indexString(i) \o " missing valid 'question' field"),
       Check(readThrows(faq), notValidString(getProp(faq, "answer")),
             "FAQ " \o indexString(i) \o " missing valid 'answer' field") >>

branchChecks(branch, i) ==
    << Check(FALSE, notObject(branch),
             "Branch " \o indexString(i) \o " is not an object"),
       Check(readThrows(branch), notValidString(getProp(branch, "topic")),
             "Branch " \o indexString(i) \o " missing valid 'topic' field"),
       Check(readThrows(branch), ~isArray(getProp(branch, "subtopics")),
             "Branch " \o indexString(i) \o " missing 'subtopics' array") >>

itemChecks(shape, item, i) ==
    IF shape = "flashcards" THEN flashcardChecks(item, i)
    ELSE IF shape = "quiz" THEN quizChecks(item, i)
    ELSE IF shape = "actionItems" THEN actionItemChecks(item, i)
    ELSE IF shape = "highlights" THEN highlightChecks(item, i)
    ELSE IF shape = "faq" THEN faqChecks(item, i)
    ELSE branchChecks(item, i)

\* for (let i = 0; i < data.length; i++) { ... } return { valid: true }
\* k is the 1-based position, the index named in messages is k - 1
RECURSIVE scanItems(_, _, _)
scanItems(shape, items, k) ==
    IF k > Len(items) THEN Valid
    ELSE LET r == firstFailure(itemChecks(shape, items[k], k - 1)) IN
         IF r.threw \/ ~r.valid THEN r
         ELSE scanItems(shape, items, k + 1)

flashcards(data) ==
    IF ~isArray(data) THEN Invalid("Expected array of flashcards")
    ELSE scanItems("flashcards", data.v, 1)

quiz(data) ==
    IF ~isArray(data) THEN Invalid("Expected array of questions")
    ELSE scanItems("quiz", data.v, 1)

actionItems(data) ==
    IF ~isArray(data) THEN Invalid("Expected array of action items")
    ELSE scanItems("actionItems", data.v, 1)

highlights(data) ==
    IF ~isArray(data) THEN Invalid("Expected array of highlights")
    ELSE scanItems("highlights", data.v, 1)

faq(data) ==
    IF ~isArray(data) THEN Invalid("Expected array of FAQs")
    ELSE scanItems("faq", data.v, 1)

mindmap(data) ==
    LET top == firstFailure(
            << Check(FALSE, notObject(data), "Expected mindmap object"),
               Check(readThrows(data), notValidString(getProp(data, "center")),
                     "Missing valid center topic"),
               Check(readThrows(data), ~isArray(getProp(data, "branches")),
                     "Missing branches array") >>)
    IN  IF top.threw \/ ~top.valid THEN top
        ELSE scanItems("mindmap", getProp(data, "branches").v, 1)

ValidatorNames == {"flashcards", "quiz", "actionItems", "highlights", "faq", "mindmap"}

\* validators[validatorName](parsed)
validators(validatorName, parsed) ==
    IF validatorName = "flashcards" THEN flashcards(parsed)
    ELSE IF validatorName = "quiz" THEN quiz(parsed)
    ELSE IF validatorName = "actionItems" THEN actionItems(parsed)
    ELSE IF validatorName = "highlights" THEN highlights(parsed)
    ELSE IF validatorName = "faq" THEN faq(parsed)
    ELSE mindmap(parsed)

\* parseAndValidate after the parse: look the validator up, apply it
validateParsed(parsed, validatorName) ==
    IF validatorName \in ValidatorNames
    THEN LET result == validators(validatorName, parsed) IN
         IF result.threw THEN [threw |-> TRUE]
         ELSE IF ~result.valid
         THEN [threw |-> FALSE, success |-> FALSE, error |-> result.error,
               code |-> "SCHEMA_ERROR"]
         ELSE [threw |-> FALSE, success |-> TRUE, data |-> parsed]
    ELSE [threw |-> FALSE, success |-> TRUE, data |-> parsed]

parseAndValidate(response, validatorName) ==
    LET r == parseJSON(response) IN
    IF r.threw
    THEN [threw |-> FALSE, success |-> FALSE, error |-> "Failed to parse response as JSON",
          code |-> "PARSE_ERROR"]
    ELSE validateParsed(r.value, validatorName)

----------------------------------------------------------------------------
(* The validators applied to parsed values of every shape.                  *)

MaxItems == 2

GoodOptions == Arr(<<Str("A"), Str("B")>>)

QuizItems ==
    { Obj(<<Member("question", Str("Q?")), Member("options", GoodOptions),
                Member("correctIndex", ci)>>) :
          ci \in {Num(0), Num(1), Num(2), Num(5), Num(-1), Half(0), Half(1), Str("1")} }
    \cup
    { Obj(<<Member("question", Str("Q?")), Member("options", GoodOptions)>>),
      Obj(<<Member("question", Str("Q?")), Member("options", Arr(<<Str("A")>>)),
                Member("correctIndex", Num(0))>>),
      Obj(<<Member("question", Str("Q?")), Member("options", Str("AB")),
                Member("correctIndex", Num(0))>>),
      Obj(<<Member("question", Str("Q?")), Member("correctIndex", Num(0))>>),
      Obj(<<Member("question", Str("")), Member("options", GoodOptions),
                Member("correctIndex", Num(0))>>),
      Obj(<<Member("options", GoodOptions), Member("correctIndex", Num(5))>>),
      Obj(<<Member("question", Num(1)), Member("options", Arr(<<>>)),
                Member("correctIndex", Num(0))>>),
      JNull, Str("Q?"), Arr(<<>>) }

PairItems(first, second) ==
    { Obj(<<Member(first, a), Member(second, b)>>) :
          a \in {Str("X"), Str(""), Str(" "), Num(1), JNull},
          b \in {Str("Y"), Str("")} }
    \cup
    { Obj(<<Member(first, Str("X"))>>), Obj(<<Member(second, Str("Y"))>>),
      Obj(<<>>), JNull, Str("X"), Arr(<<>>) }

ActionItemValues ==
    { Obj(<<Member("task", Str("T"))>>),
      Obj(<<Member("task", Str("T")), Member("assignee", JNull),
                Member("deadline", JNull)>>),
      Obj(<<Member("task", Str("T")), Member("assignee", Num(1))>>),
      Obj(<<Member("task", Str(""))>>),
      Obj(<<Member("task", JNull)>>),
      Obj(<<Member("assignee", Str("A"))>>),
      JNull, Num(1), Arr(<<>>) }

HighlightValues == {Str("h"), Str(""), Str(" "), Num(1), JNull, Obj(<<>>)}

BranchValues ==
    { Obj(<<Member("topic", Str("T")), Member("subtopics", Arr(<<>>))>>),
      Obj(<<Member("topic", Str("T")), Member("subtopics", Arr(<<Str("s")>>))>>),
      Obj(<<Member("topic", Str("T"))>>),
      Obj(<<Member("topic", Str("")), Member("subtopics", Arr(<<>>))>>),
      Obj(<<Member("subtopics", Arr(<<>>))>>),
      Obj(<<Member("topic", Str("T")), Member("subtopics", Str("s"))>>),
      JNull, Str("T") }

ItemValues(shape) ==
    IF shape = "flashcards" THEN PairItems("front", "back")
    ELSE IF shape = "quiz" THEN QuizItems
    ELSE IF shape = "actionItems" THEN ActionItemValues
    ELSE IF shape = "highlights" THEN HighlightValues
    ELSE IF shape = "faq" THEN PairItems("question", "answer")
    ELSE BranchValues

ArraysOf(S) == { Arr(items) : items \in SeqsUpTo(S, MaxItems) }

NonArrays == {JNull, Str("x"), Num(1), JBool(TRUE), Obj(<<>>)}

MindmapValues ==
    { Obj(<<Member("center", Str("C")), Member("branches", b)>>) :
          b \in ArraysOf(BranchValues) \cup {Str("b"), JNull} }
    \cup
    { Obj(<<Member("center", c), Member("branches", Arr(<<>>))>>) :
          c \in {Str(""), Str(" "), Num(1)} }
    \cup
    { Obj(<<Member("center", Str("C"))>>),
      Obj(<<Member("branches", Arr(<<>>))>>),
      JNull, Str("x"), Num(1), JBool(TRUE), Arr(<<>>) }

ParsedValues(shape) ==
    IF shape = "mindmap" THEN MindmapValues
    ELSE ArraysOf(ItemValues(shape)) \cup NonArrays

CheckInputs ==
    UNION { { [name |-> n, parsed |-> p] : p \in ParsedValues(n) } : n \in ValidatorNames }
    \cup { [name |-> "summary", parsed |-> p] : p \in NonArrays }

InitValidate ==
    /\ ClientsIdle /\ UnwrapIdle /\ SanIdle /\ HttpIdle /\ ConcIdle
    /\ checkPc = "ready"
    /\ checkIn \in CheckInputs
    /\ checkOut = Undefined

\* parseAndValidate from the validator lookup on, for a response that parsed
Validate ==
    /\ checkPc = "ready"
    /\ checkOut' = validateParsed(checkIn.parsed, checkIn.name)
    /\ checkPc' = "done"
    /\ UNCHANGED <<checkIn, invokeVars, legacyVars, unwrapVars, sanVars, httpVars, concVars>>

NextValidate == Validate

SpecValidate == InitValidate /\ [][NextValidate]_vars

----------------------------------------------------------------------------
(* Properties of the shape validators.                                      *)

\* "non-empty string" read as the code reads it: a string with a character
\* that is not white space
IsNonEmptyString(x) == x.t = "string" /\ trim(x.v) # ""

IsInteger(x) == x.t = "number" /\ "half" \notin DOMAIN x

IsObject(x) == x.t \in {"object", "array"}

\* the rules of the table, per item, in the table's field order; each rule
\* is <<the text that names it in a message, whether the item keeps it>>
TableRules(shape, item) ==
    IF shape = "highlights"
    THEN << <<"not a valid string", IsNonEmptyString(item)>> >>
    ELSE << <<"not an object", IsObject(item)>> >> \o
         IF shape = "flashcards"
         THEN << <<"'front'", IsNonEmptyString(getProp(item, "front"))>>,
                 <<"'back'", IsNonEmptyString(getProp(item, "back"))>> >>
         ELSE IF shape = "quiz"
         THEN << <<"'question'", IsNonEmptyString(getProp(item, "question"))>>,
                 <<"'options'", /\ isArray(getProp(item, "options"))
                                /\ Len(getProp(item, "options").v) >= 2>>,
                 <<"'correctIndex'",
                   /\ IsInteger(getProp(item, "correctIndex"))
                   /\ getProp(item, "correctIndex").v >= 0
                   /\ isArray(getProp(item, "options"))
                   /\ getProp(item, "correctIndex").v < Len(getProp(item, "options").v)>> >>
         ELSE IF shape = "actionItems"
         THEN << <<"'task'", IsNonEmptyString(getProp(item, "task"))>> >>
         ELSE IF shape = "faq"
         THEN << <<"'question'", IsNonEmptyString(getProp(item, "question"))>>,
                 <<"'answer'", IsNonEmptyString(getProp(item, "answer"))>> >>
         ELSE << <<"'topic'", IsNonEmptyString(getProp(item, "topic"))>>,
                 <<"'subtopics'", isArray(getProp(item, "subtopics"))>> >>

ItemConforms(shape, item) ==
    \A r \in 1..Len(TableRules(shape, item)) : TableRules(shape, item)[r][2]

QuizConforms(data) ==
    /\ isArray(data)
    /\ \A k \in 1..Len(data.v) : ItemConforms("quiz", data.v[k])

QuizScenario ==
    Arr(<< Obj(<<Member("question", Str("Q?")), Member("options", GoodOptions),
                     Member("correctIndex", Num(5))>>) >>)

\* C11: the quiz validator accepts a parsed value exactly when it is an array
\* whose every item is an object with a non-empty string question, an options
\* array of at least 2 and an integer correctIndex within the options; the
\* payload with correctIndex 5 is rejected with a message naming item 0 and
\* correctIndex.
C11_QuizAcceptsExactlyTheTable ==
    (checkPc = "done" /\ checkIn.name = "quiz") =>
        /\ ~checkOut.threw
        /\ checkOut.success <=> QuizConforms(checkIn.parsed)
        /\ checkIn.parsed = QuizScenario =>
               /\ ~checkOut.success
               /\ Includes(checkOut.error, " 0 ")
               /\ Includes(checkOut.error, "'correctIndex'")

\* the items of the value a validator scans
ScannedItems(name, data) ==
    IF name = "mindmap"
    THEN IF IsObject(data) /\ isArray(getProp(data, "branches"))
              /\ IsNonEmptyString(getProp(data, "center"))
         THEN getProp(data, "branches").v ELSE <<>>
    ELSE IF isArray(data) THEN data.v ELSE <<>>

FirstBadItem(name, items) ==
    CHOOSE k \in 1..Len(items) :
        /\ ~ItemConforms(name, items[k])
        /\ \A j \in 1..(k - 1) : ItemConforms(name, items[j])

FirstBrokenRule(name, item) ==
    LET rules == TableRules(name, item) IN
    rules[CHOOSE r \in 1..Len(rules) :
              ~rules[r][2] /\ \A q \in 1..(r - 1) : rules[q][2]][1]

HasBadItem(name, data) ==
    \E k \in 1..Len(ScannedItems(name, data)) :
        ~ItemConforms(name, ScannedItems(name, data)[k])

\* C12: every validator returns an outcome for every parsed value; when the
\* value holds invalid items the message names the smallest index of an item
\* that breaks a rule of the table and the first rule that item breaks, and
\* that message is the SCHEMA_ERROR detail the caller gets.
C12_FirstViolationReported ==
    (checkPc = "done" /\ checkIn.name \in ValidatorNames) =>
        /\ ~checkOut.threw
        /\ HasBadItem(checkIn.name, checkIn.parsed) =>
               LET items == ScannedItems(checkIn.name, checkIn.parsed)
                   k == FirstBadItem(checkIn.name, items)
               IN  /\ ~checkOut.success
                   /\ checkOut.code = "SCHEMA_ERROR"
                   /\ checkOut.error = validators(checkIn.name, checkIn.parsed).error
                   /\ Includes(checkOut.error, " " \o indexString(k - 1) \o " ")
                   /\ Includes(checkOut.error, FirstBrokenRule(checkIn.name, items[k]))

----------------------------------------------------------------------------
(* sanitizeInput.                                                           *)

\* the length limit of sanitizeInput, 100000 in the code, scaled down so
\* that texts on both sides of it are enumerable
MAX_TRANSCRIPT_LENGTH == 40

Filtered == "[FILTERED]"

UpperCase == "ABCDEFGHIJKLMNOPQRSTUVWXYZ"
LowerCase == "abcdefghijklmnopqrstuvwxyz"

\* the /i flag on ASCII text
toLowerChar(c) ==
    IF \E i \in 1..26 : SubSeq(UpperCase, i, i) = c
    THEN LET i == CHOOSE i \in 1..26 : SubSeq(UpperCase, i, i) = c
         IN  SubSeq(LowerCase, i, i)
    ELSE c

RECURSIVE toLower(_)
toLower(s) ==
    IF s = "" THEN "" ELSE toLowerChar(SubSeq(s, 1, 1)) \o toLower(SubSeq(s, 2, Len(s)))

\* (all )?(previous|above|prior) instructions after a verb
InstructionPhrases(verb) ==
    { verb \o " " \o all \o which \o " instructions" :
          all \in {"", "all "}, which \in {"previous", "above", "prior"} }

\* suspiciousPatterns, each as the set of lower-case texts it matches
suspiciousPatterns ==
    << InstructionPhrases("ignore"),
       InstructionPhrases("disregard"),
       InstructionPhrases("forget"),
       {"new instructions:"},
       {"system prompt:"},
       {"[inst]"},
       {"[/inst]"},
       {"<|im_start|>"},
       {"<|im_end|>"},
       {"human:"},
       {"assistant:"} >>

\* the texts of the pattern that match at position i of the lower-cased text
matchesAt(lower, i, pattern) ==
    { m \in pattern : i + Len(m) - 1 <= Len(lower) /\ SubSeq(lower, i, i + Len(m) - 1) = m }

\* text.replace(pattern, '[FILTERED]') with the g and i flags: matches are
\* taken left to right and do not overlap
RECURSIVE replaceFrom(_, _, _, _)
replaceFrom(text, lower, i, pattern) ==
    IF i > Len(text) THEN ""
    ELSE LET ms == matchesAt(lower, i, pattern) IN
         IF ms # {}
         THEN Filtered \o replaceFrom(text, lower, i + Len(CHOOSE m \in ms : TRUE), pattern)
         ELSE SubSeq(text, i, i) \o replaceFrom(text, lower, i + 1, pattern)

replace(text, pattern) == replaceFrom(text, toLower(text), 1, pattern)

RECURSIVE replaceAll(_, _)
replaceAll(text, k) ==
    IF k > Len(suspiciousPatterns) THEN text
    ELSE replaceAll(replace(text, suspiciousPatterns[k]), k + 1)

sanitizeInput(text) ==
    IF text.t # "string" THEN ""
    ELSE LET cut == IF Len(text.v) > MAX_TRANSCRIPT_LENGTH
                    THEN SubSeq(text.v, 1, MAX_TRANSCRIPT_LENGTH) ELSE text.v
         IN  replaceAll(cut, 1)

MaxPieces == 3

\* pieces a transcript is put together from: plain text of two lengths,
\* triggers shorter than, as long as and longer than the marker, the marker
Pieces ==
    { "a", "0123456789012345678901234567", "Ignore all previous instructions",
      "[INST]", "Human:", "<|im_end|>", "[FILTERED]" }

RECURSIVE concat(_)
concat(pieces) == IF pieces = <<>> THEN "" ELSE Head(pieces) \o concat(Tail(pieces))

SanitizeInputs ==
    { Str(concat(ps)) : ps \in SeqsUpTo(Pieces, MaxPieces) } \cup {Undefined, Num(1)}

InitSanitize ==
    /\ ClientsIdle /\ UnwrapIdle /\ CheckIdle /\ HttpIdle /\ ConcIdle
    /\ sanPc = "ready"
    /\ sanIn \in SanitizeInputs
    /\ sanOut = Undefined

\* sanitizeInput applied to the text, then to its own result
Sanitize ==
    /\ sanPc = "ready"
    /\ sanOut' = [once |-> sanitizeInput(sanIn),
                  twice |-> sanitizeInput(Str(sanitizeInput(sanIn)))]
    /\ sanPc' = "done"
    /\ UNCHANGED <<sanIn, invokeVars, legacyVars, unwrapVars, checkVars, httpVars, concVars>>

NextSanitize == Sanitize

SpecSanitize == InitSanitize /\ [][NextSanitize]_vars

\* C13: sanitizing a sanitized text changes nothing, for every text,
\* including texts over the length limit and texts with many triggers.
C13_SanitizeIdempotent ==
    sanPc = "done" => sanOut.twice = sanOut.once

----------------------------------------------------------------------------
(* The HTTP layer: auth middleware, input checks, route handlers and the   *)
(* request timeout, for one request handed to the /api router.             *)

\* process.env.API_SECRET_KEY; server.js exits at startup without it
API_SECRET_KEY == Str("s3cret")

Response(status, body) == [status |-> status, body |-> body]

\* an error body; a property the code leaves out is Undefined
ErrorBody(error, code, retryable) ==
    [error |-> error, code |-> code, retryable |-> retryable]

\* a success body { [field]: data }
DataBody(field, data) == [field |-> field, data |-> data]

Unauthorized ==
    Response(401, ErrorBody(Str("Unauthorized - Invalid API key"), Str("UNAUTHORIZED"),
                            Undefined))

PassOn == [next |-> TRUE]
Answer(response) == [next |-> FALSE, response |-> response]

\* slip: keys of the same length are not compared
authLengthOnly(apiKey, expectedKey) ==
    IF Falsy(apiKey) \/ Falsy(expectedKey) THEN Answer(Unauthorized)
    ELSE IF Len(apiKey.v) # Len(expectedKey.v) THEN Answer(Unauthorized)
    ELSE PassOn

\* the auth middleware
auth(apiKey, expectedKey) ==
    IF Falsy(apiKey) \/ Falsy(expectedKey) THEN Answer(Unauthorized)
    ELSE IF Len(apiKey.v) # Len(expectedKey.v) THEN Answer(Unauthorized)
    ELSE IF apiKey.v # expectedKey.v THEN Answer(Unauthorized)
    ELSE PassOn

BadRequest(message, code) == Response(400, ErrorBody(Str(message), code, Undefined))

\* validateTranscript: the response it sends, or the sanitized transcript
validateTranscript(transcript) ==
    IF Falsy(transcript)
    THEN Answer(BadRequest("Transcript is required", Undefined))
    ELSE IF transcript.t # "string"
    THEN Answer(BadRequest("Transcript must be a string", Undefined))
    ELSE IF Len(transcript.v) > MAX_TRANSCRIPT_LENGTH
    THEN Answer(BadRequest("Transcript too long.", Undefined))
    ELSE [next |-> TRUE, value |-> sanitizeInput(transcript)]

\* text.substring(0, n)
substring0(text, n) == IF Len(text) > n THEN SubSeq(text, 1, n) ELSE text

QUESTION_LIMIT == 500

\* the checks of /chat after validateTranscript
validateQuestion(question) ==
    IF Falsy(question) \/ question.t # "string"
    THEN Answer(BadRequest("Question is required", Str("VALIDATION_ERROR")))
    ELSE [next |-> TRUE,
          value |-> sanitizeInput(Str(substring0(question.v, QUESTION_LIMIT)))]

allowedLanguages ==
    << "English", "Spanish", "French", "German", "Italian", "Portuguese",
       "Chinese", "Japanese", "Korean", "Arabic", "Hindi", "Russian",
       "Dutch", "Swedish", "Norwegian", "Danish", "Finnish", "Polish",
       "Turkish", "Greek", "Hebrew", "Thai", "Vietnamese", "Indonesian",
       "Malay", "Filipino", "Bengali", "Urdu", "Persian", "Ukrainian" >>

\* allowedLanguages.find(lang => lang.toLowerCase() === normalized.toLowerCase())
matchLanguage(targetLanguage) ==
    LET normalized == toLower(trim(targetLanguage))
        hits == { k \in 1..Len(allowedLanguages) : toLower(allowedLanguages[k]) = normalized }
    IN  IF hits = {} THEN Undefined
        ELSE Str(allowedLanguages[CHOOSE k \in hits : \A j \in hits : k <= j])

\* the checks of /translate
validateTranslate(text, targetLanguage) ==
    IF Falsy(text) \/ text.t # "string"
    THEN Answer(BadRequest("Text is required", Str("VALIDATION_ERROR")))
    ELSE IF Falsy(targetLanguage) \/ targetLanguage.t # "string"
    THEN Answer(BadRequest("Target language is required", Str("VALIDATION_ERROR")))
    ELSE IF matchLanguage(targetLanguage.v) = Undefined
    THEN Answer(BadRequest("Unsupported language.", Str("VALIDATION_ERROR")))
    ELSE [next |-> TRUE,
          value |-> << matchLanguage(targetLanguage.v).v,
                       sanitizeInput(Str(substring0(text.v, MAX_TRANSCRIPT_LENGTH))) >>]

\* a route: its path, the input it reads, the validator name it passes to
\* parseAndValidate ("" when the response is plain text), the operation
\* named to handleClaudeError and the property of the success body
Route(path, input, validatorName, operation, field) ==
    [path |-> path, input |-> input, validatorName |-> validatorName,
     operation |-> operation, field |-> field]

Routes ==
    { Route("/summary", "transcript", "", "generate summary", "summary"),
      Route("/bullets", "transcript", "", "generate bullet points", "bullets"),
      Route("/notes", "transcript", "", "generate notes", "notes"),
      Route("/flashcards", "transcript", "flashcards", "generate flashcards", "flashcards"),
      Route("/quiz", "transcript", "quiz", "generate quiz", "questions"),
      Route("/action-items", "transcript", "actionItems", "extract action items", "actionItems"),
      Route("/highlights", "transcript", "highlights", "extract highlights", "highlights"),
      Route("/chat", "chat", "", "process chat", "answer"),
      Route("/paraphrase", "transcript", "", "paraphrase", "paraphrased"),
      Route("/translate", "translate", "", "translate", "translated"),
      Route("/faq", "transcript", "faq", "generate FAQ", "faqs"),
      Route("/mindmap", "transcript", "mindmap", "generate mind map", "mindmap"),
      Route("/punctuation", "transcript", "", "add punctuation", "punctuated"),
      Route("/formal", "transcript", "", "generate formal version", "formal"),
      Route("/casual", "transcript", "", "generate casual version", "casual") }

routeOf(path) == CHOOSE r \in Routes : r.path = path

\* the handler up to its await: the response it sends, or the texts it puts
\* in the prompt
validateInput(route, body) ==
    IF route.input = "translate" THEN validateTranslate(body.text, body.targetLanguage)
    ELSE LET t == validateTranscript(body.transcript) IN
         IF ~t.next THEN t
         ELSE IF route.input = "chat"
         THEN LET q == validateQuestion(body.question) IN
              IF ~q.next THEN q ELSE [next |-> TRUE, value |-> <<t.value, q.value>>]
         ELSE [next |-> TRUE, value |-> <<t.value>>]

\* handleClaudeError: the response it sends for a caught error
handleClaudeError(error, operation) ==
    IF instanceofClaudeAPIError(error)
    THEN Response(IF error.code = Str("RATE_LIMITED") THEN 429
                  ELSE IF error.code = Str("TIMEOUT") THEN 504
                  ELSE IF error.code = Str("SERVICE_UNAVAILABLE") THEN 503
                  ELSE 500,
                  ErrorBody(error.message, error.code, JBool(error.isRetryable)))
    ELSE Response(500, ErrorBody(Str("Failed to " \o operation \o ". Please try again."),
                                 Str("SERVICE_ERROR"), JBool(TRUE)))

\* slip: the parsed value is sent without asking the validator
respondUnvalidated(route, text) ==
    IF route.validatorName = "" THEN Response(200, DataBody(route.field, text))
    ELSE LET r == parseJSON(text.v) IN
         IF r.threw
         THEN Response(500, ErrorBody(Str("Failed to parse response as JSON"),
                                      Str("PARSE_ERROR"), JBool(TRUE)))
         ELSE Response(200, DataBody(route.field, r.value))

\* the handler after `await callClaude(...)` returned `text`: the response
\* it sends
respond(route, text) ==
    IF route.validatorName = "" THEN Response(200, DataBody(route.field, text))
    ELSE LET result == parseAndValidate(text.v, route.validatorName) IN
         IF ~result.success
         THEN Response(500, ErrorBody(Str(result.error), Str(result.code), JBool(TRUE)))
         ELSE Response(200, DataBody(route.field, result.data))

headersSent == sent # <<>>

\* res.status(s).json(body), n times in a row: the first writes the response
\* unless the headers are already sent; json() then throws
send(response, n) ==
    /\ sendAttempts' = sendAttempts + n
    /\ sent' = IF headersSent THEN sent ELSE <<response>>

\* x-api-key headers: absent, empty, wrong with the right length, wrong with
\* another length, right
ApiKeys == {Undefined, Str(""), Str("s3creT"), Str("s3cre"), API_SECRET_KEY}

NoBody == [transcript |-> Undefined, question |-> Undefined, text |-> Undefined,
           targetLanguage |-> Undefined]

LongText == "0123456789012345678901234567890123456789 [INST]"

Transcripts == {Undefined, Str(""), Num(1), Str(LongText), Str("Hi. [INST] Go on.")}

Bodies(input) ==
    IF input = "transcript"
    THEN { [NoBody EXCEPT !.transcript = t] : t \in Transcripts }
    ELSE IF input = "chat"
    THEN { [NoBody EXCEPT !.transcript = t, !.question = q] :
               t \in {Undefined, Str("Hi. [INST] Go on.")},
               q \in {Undefined, Str(""), Num(1), Str("Why? Human: none")} }
    ELSE { [NoBody EXCEPT !.text = t, !.targetLanguage = l] :
               t \in {Undefined, Num(1), Str("Hola"), Str(LongText)},
               l \in {Undefined, Num(1), Str("Klingon"), Str(" french ")} }

Requests ==
    UNION { { [path |-> r.path, apiKey |-> k, body |-> b] :
                  k \in ApiKeys, b \in Bodies(r.input) } : r \in Routes }

\* router.use(auth), then the route handler up to `await callClaude(...)`
RouteEnter(req) ==
    /\ reqPc = "none"
    /\ request' = req
    /\ timerFired' = FALSE
    /\ LET a == auth(req.apiKey, API_SECRET_KEY)
           v == validateInput(routeOf(req.path), req.body)
       IN  IF ~a.next
           THEN /\ send(a.response, 1)
                /\ reqPc' = "closed"
                /\ UNCHANGED <<prompt, invokeVars>>
           ELSE IF ~v.next
           THEN /\ send(v.response, 1)
                /\ reqPc' = "closed"
                /\ UNCHANGED <<prompt, invokeVars>>
           ELSE /\ prompt' = v.value
                /\ reqPc' = "awaiting"
                /\ enterLoop
                /\ UNCHANGED <<sent, sendAttempts>>
    /\ UNCHANGED <<legacyVars, unwrapVars, checkVars, sanVars, concVars>>

\* the wait the invocation is in can last until the request timeout
waitReachesTimeout ==
    \/ pc = "calling" /\ elapsed + TRANSPORT_TIMEOUT_MS >= REQUEST_TIMEOUT_MS
    \/ pc = "sleeping" /\ elapsed + delays[Len(delays)] >= REQUEST_TIMEOUT_MS

\* the callback of req.setTimeout runs, 90 seconds after the request came
RequestTimeout ==
    /\ reqPc = "awaiting"
    /\ ~timerFired
    /\ elapsed <= REQUEST_TIMEOUT_MS
    /\ waitReachesTimeout
    /\ timerFired' = TRUE
    /\ IF ~headersSent
       THEN send(Response(408, ErrorBody(Str("Request timeout"), Str("REQUEST_TIMEOUT"),
                                         JBool(TRUE))), 1)
       ELSE UNCHANGED <<sent, sendAttempts>>
    /\ UNCHANGED <<reqPc, request, prompt, invokeVars, legacyVars, unwrapVars, checkVars,
                   sanVars, concVars>>

\* a step of the invocation the handler awaits; it ends before the request
\* timeout when the callback has not run yet, and after it otherwise
Awaited(step) ==
    /\ reqPc = "awaiting"
    /\ step
    /\ IF timerFired THEN elapsed' >= REQUEST_TIMEOUT_MS ELSE elapsed' <= REQUEST_TIMEOUT_MS

\* the handler resumes after the await: the try block's res.json, or the
\* catch block's handleClaudeError; a res.json that throws because the
\* headers are sent leads to handleClaudeError too, whose res.json throws
RouteResume ==
    /\ reqPc = "awaiting"
    /\ pc \in {"returned", "thrown"}
    /\ LET route == routeOf(request.path) IN
       IF pc = "returned"
       THEN send(respond(route, outcome.value), IF headersSent THEN 2 ELSE 1)
       ELSE send(handleClaudeError(outcome.error, route.operation), 1)
    /\ reqPc' = IF headersSent THEN "rejected" ELSE "closed"
    /\ UNCHANGED <<request, prompt, timerFired, invokeVars, legacyVars, unwrapVars,
                   checkVars, sanVars, concVars>>

HttpTexts == {"hi", "{}", "[]", "{\"center\":\"C\",\"branches\":[]}"}

HttpEnvelopes ==
    { [content |-> Arr(<<[type |-> "text", text |-> Str(x)]>>)] : x \in HttpTexts }
    \cup { [content |-> Arr(<<>>)] }

HttpFailures ==
    { RawFailure(Num(503), Undefined, Str("bad")),
      RawFailure(Num(429), Undefined, Str("bad")),
      RawFailure(Num(401), Undefined, Str("bad")),
      RawFailure(Undefined, Undefined, Str("bad")),
      RawFailure(Undefined, Undefined, Str("socket hang up")) }

HttpTimeoutFailures == { RawFailure(Undefined, Undefined, Str("Request timeout")) }

NextHttp ==
    \/ \E req \in Requests : RouteEnter(req)
    \/ \E response \in HttpEnvelopes, duration \in AttemptDurations :
          Awaited(UpstreamResolves(response, duration, 0))
    \/ \E error \in HttpFailures, duration \in AttemptDurations :
          Awaited(UpstreamRejects(error, duration, 0))
    \/ \E error \in HttpTimeoutFailures : Awaited(UpstreamTimesOut(error, 0))
    \/ Awaited(SleepEnds)
    \/ RequestTimeout
    \/ RouteResume

SpecHttp == Init /\ [][NextHttp]_vars

----------------------------------------------------------------------------
(* Properties of the HTTP layer.                                            *)

IsErrorBody(body) == "code" \in DOMAIN body

\* C14: a response that reports PARSE_ERROR or SCHEMA_ERROR for a structured
\* operation carries retryable = false.
C14_ShapeFailuresNotRetryable ==
    \A k \in 1..Len(sent) :
        (/\ IsErrorBody(sent[k].body)
         /\ sent[k].body.code \in {Str("PARSE_ERROR"), Str("SCHEMA_ERROR")})
        => sent[k].body.retryable = JBool(FALSE)

\* C15: when the invocation ends in UNKNOWN_ERROR, neither the message of
\* the error callClaude throws nor the error text handleClaudeError sends
\* contains the message of the raw failure.
C15_UnknownErrorIsGeneric ==
    (/\ pc = "thrown"
     /\ outcome.error.code = Str("UNKNOWN_ERROR")
     /\ lastError.message.t = "string")
    => /\ ~Includes(outcome.error.message.v, lastError.message.v)
       /\ \A k \in 1..Len(sent) :
              sent[k].body.code = Str("UNKNOWN_ERROR")
              => ~Includes(sent[k].body.error.v, lastError.message.v)

\* the header is present and equal to the configured key
KeyMatches(req) == req.apiKey.t = "string" /\ req.apiKey = API_SECRET_KEY

IsPresentString(x) == x.t = "string" /\ Len(x.v) > 0

IsAllowedLanguage(x) ==
    /\ x.t = "string"
    /\ \E k \in 1..Len(allowedLanguages) : toLower(allowedLanguages[k]) = toLower(trim(x.v))

\* the input of the request is valid for its endpoint
InputValid(req) ==
    LET input == routeOf(req.path).input IN
    IF input = "translate"
    THEN IsPresentString(req.body.text) /\ IsAllowedLanguage(req.body.targetLanguage)
    ELSE /\ IsPresentString(req.body.transcript)
         /\ Len(req.body.transcript.v) <= MAX_TRANSCRIPT_LENGTH
         /\ input = "chat" => IsPresentString(req.body.question)

\* C17: an upstream call is issued for a request only if its x-api-key equals
\* the configured key and its input is valid; a request failing either check
\* is answered 401 or 400 and causes no upstream call.
C17_NoCallWithoutAuthAndValidInput ==
    reqPc # "none" =>
        /\ calls > 0 => KeyMatches(request) /\ InputValid(request)
        /\ ~(KeyMatches(request) /\ InputValid(request)) =>
               /\ reqPc = "closed"
               /\ calls = 0
               /\ Len(sent) = 1
               /\ sent[1].status = IF KeyMatches(request) THEN 400 ELSE 401

\* a request with a wrong key of the right length was answered 401; a
\* request with the right key was let through to the upstream call
C17_Witness ==
    /\ reqPc = "closed"
    /\ request.apiKey = Str("s3creT")
    /\ InputValid(request)
    /\ sent = <<Unauthorized>>
    /\ calls = 0

\* C20: for one request, res.json is called at most once, in every order of
\* the request timeout callback and the handler's completion.
C20_AtMostOneSendAttempt ==
    sendAttempts <= 1

----------------------------------------------------------------------------
(* Further properties of callClaude.                                        *)

\* C18: after any sequence of two or more failures the thrown error carries
\* the code and the retryable flag the table assigns to the failure of the
\* last attempt made, never those of an earlier failure.
C18_LastFailureDecides ==
    (pc = "thrown" /\ LastIsRawFailure /\ Len(failures) >= 2) =>
        /\ failures[Len(failures)] = logEntry(lastError)
        /\ ThrownCode = C3_Table(lastError)[1]
        /\ outcome.error.isRetryable = C3_Table(lastError)[2]

\* the text of the first unit of kind "text" of an envelope
FirstTextOf(envelope) ==
    LET units == envelope.content.v
        k == CHOOSE k \in 1..Len(units) :
                 units[k].type = "text" /\ \A j \in 1..(k - 1) : units[j].type # "text"
    IN  units[k].text

\* an envelope whose units of kind "text" all carry a non-empty string, and
\* that has one
IsValidEnvelope(envelope) ==
    /\ envelope # Undefined
    /\ envelope.content.t = "array"
    /\ \E k \in 1..Len(envelope.content.v) : envelope.content.v[k].type = "text"
    /\ \A k \in 1..Len(envelope.content.v) :
           envelope.content.v[k].type = "text" =>
               (envelope.content.v[k].text.t = "string" /\ envelope.content.v[k].text.v # "")

----------------------------------------------------------------------------
(* Concurrent invocations of callClaude, interleaved at their awaits.       *)

\* slip: the loop variable is declared at module level, one for all calls
attemptOfShared(invs, i) ==
    CHOOSE n \in {invs[j].attempt : j \in Invocations} :
        \A j \in Invocations : invs[j].attempt <= n

\* `attempt`, declared by the for statement inside the call
attemptOf(invs, i) == invs[i].attempt

\* what an invocation awaited: the start of the call, a settled request, a
\* sleep that ended
Event(kind, value) == [kind |-> kind, value |-> value]

\* callClaude(prompt, maxTokens) is called: invocation i enters its loop and
\* issues its first request
InvocationBegins(i) ==
    /\ inv[i].pc = "idle"
    /\ inv' = [inv EXCEPT ![i] =
                  [@ EXCEPT !.pc = "calling", !.attempt = 1, !.calls = @ + 1,
                            !.inFlight = @ + 1,
                            !.log = Append(@, Event("begun", Undefined))]]
    /\ UNCHANGED <<invokeVars, legacyVars, unwrapVars, checkVars, sanVars, httpVars>>

\* invocation i after its request settled: the try block's checks, or the
\* catch block and what follows the loop
afterSettled(invs, i, result) ==
    LET n == attemptOf(invs, i)
        checked == IF result.kind = "resolved" THEN validateResponse(result.value)
                   ELSE [threw |-> TRUE, error |-> result.value]
        base == [invs[i] EXCEPT !.inFlight = @ - 1, !.log = Append(@, result)]
    IN  IF ~checked.threw
        THEN [base EXCEPT !.pc = "returned",
                          !.outcome = [kind |-> "return", value |-> checked.value]]
        ELSE LET caught == [base EXCEPT !.lastError = checked.error]
                 decision == catchDecision(checked.error, n)
             IN  IF decision = "rethrow"
                 THEN [caught EXCEPT !.pc = "thrown",
                                     !.outcome = [kind |-> "throw", error |-> checked.error]]
                 ELSE IF decision = "break"
                 THEN [caught EXCEPT !.pc = "thrown",
                                     !.outcome = [kind |-> "throw",
                                                  error |-> categorize(checked.error)]]
                 ELSE [caught EXCEPT !.pc = "sleeping", !.sleeps = @ + 1]

\* the request of invocation i resolves or rejects
InvocationSettles(i, result) ==
    /\ inv[i].pc = "calling"
    /\ inv' = [inv EXCEPT ![i] = afterSettled(inv, i, result)]
    /\ UNCHANGED <<invokeVars, legacyVars, unwrapVars, checkVars, sanVars, httpVars>>

\* the sleep of invocation i ends: attempt++ and the next request is issued
InvocationWakes(i) ==
    /\ inv[i].pc = "sleeping"
    /\ inv' = [inv EXCEPT ![i] =
                  [@ EXCEPT !.pc = "calling", !.attempt = attemptOf(inv, i) + 1,
                            !.calls = @ + 1, !.inFlight = @ + 1,
                            !.log = Append(@, Event("slept", Undefined))]]
    /\ UNCHANGED <<invokeVars, legacyVars, unwrapVars, checkVars, sanVars, httpVars>>

ConcurrentResults ==
    { Event("resolved", [content |-> Arr(<<[type |-> "text", text |-> Str("hi")]>>)]),
      Event("resolved", [content |-> Arr(<<>>)]),
      Event("rejected", RawFailure(Num(503), Undefined, Str("bad"))),
      Event("rejected", RawFailure(Num(401), Undefined, Str("bad"))),
      Event("rejected", RawFailure(Undefined, Undefined, Str("timeout"))) }

NextConcurrent ==
    \/ \E i \in Invocations : InvocationBegins(i)
    \/ \E i \in Invocations, result \in ConcurrentResults : InvocationSettles(i, result)
    \/ \E i \in Invocations : InvocationWakes(i)

SpecConcurrent == Init /\ [][NextConcurrent]_vars

\* the variables of an invocation the claim is about
OwnState(local) ==
    <<local.pc, local.attempt, local.lastError, local.calls, local.sleeps, local.outcome>>

UpstreamResults(log) == {k \in 1..Len(log) : log[k].kind \in {"resolved", "rejected"}}
SleepsEnded(log) == {k \in 1..Len(log) : log[k].kind = "slept"}

\* C16: however the invocations interleave, the attempt counter, last error,
\* number of calls and outcome of each are determined by what it awaited
\* itself (two invocations with the same history are in the same state), and
\* an invocation has at most one upstream call in flight: every call but the
\* first follows the failure of the one before and the end of a sleep.
C16_InvocationsIndependent ==
    /\ \A i, j \in Invocations :
           inv[i].log = inv[j].log => OwnState(inv[i]) = OwnState(inv[j])
    /\ \A i \in Invocations :
           /\ inv[i].inFlight \in {0, 1}
           /\ inv[i].inFlight = 1 <=> inv[i].pc = "calling"
           /\ inv[i].calls = Cardinality(UpstreamResults(inv[i].log)) + inv[i].inFlight
           /\ inv[i].calls > 0 => inv[i].calls = Cardinality(SleepsEnded(inv[i].log)) + 1
           /\ inv[i].calls <= MAX_RETRIES

\* invocation 1 has failed three times while invocation 2, begun in between,
\* recovered on its second attempt after the same first failure
C16_Witness ==
    /\ inv[1].pc = "thrown" /\ inv[1].calls = 3
    /\ inv[2].pc = "returned" /\ inv[2].calls = 2
    /\ inv[1].log[2] = inv[2].log[2]

----------------------------------------------------------------------------
(* Further properties of the structured routes and of sanitizeInput.        *)

IsStructured(route) == route.validatorName # ""

\* C21: on a structured route a success response is sent only when the
\* upstream text parsed and the validator registered under the route's shape
\* name accepted the parsed value; that name is in the registry, and the
\* value sent is the parsed value.
C21_OnlyValidatedValuesSent ==
    /\ \A r \in Routes : IsStructured(r) => r.validatorName \in ValidatorNames
    /\ \A k \in 1..Len(sent) :
           (sent[k].status = 200 /\ IsStructured(routeOf(request.path))) =>
               /\ pc = "returned"
               /\ outcome.value.t = "string"
               /\ ~parseJSON(outcome.value.v).threw
               /\ LET parsed == parseJSON(outcome.value.v).value
                      name == routeOf(request.path).validatorName
                  IN  /\ ~validators(name, parsed).threw
                      /\ validators(name, parsed).valid
                      /\ sent[k].body = DataBody(routeOf(request.path).field, parsed)

\* /mindmap answered 200 with the parsed mind map the upstream text held
C21_Witness ==
    /\ reqPc = "closed"
    /\ request.path = "/mindmap"
    /\ Len(sent) = 1
    /\ sent[1].status = 200
    /\ sent[1].body.data = parseJSON("{\"center\":\"C\",\"branches\":[]}").value
    /\ getProp(sent[1].body.data, "center") = Str("C")

\* C22: the text sanitizeInput returns is never longer than the maximum
\* accepted length, whatever the length of the input and the number of
\* trigger phrases in it.
C22_SanitizedTextBounded ==
    sanPc = "done" => Len(sanOut.once) <= MAX_TRANSCRIPT_LENGTH

====
